---------------------------- MODULE Spec2Model ----------------------------
(***************************************************************************)
(* A model of the playoff simulator: MonteCarloSimulator (simulator.py),   *)
(* EloCalculator (elo_calculator.py) and PlayoffsAnalyzer (analyzer.py).   *)
(*                                                                         *)
(* Units.  Net run rate is kept in thousandths (the code rounds it to 3    *)
(* decimals), ratings in hundredths of a rating point, a random draw       *)
(* u in [0,1) in thousandths, a probability returned by the simulator as   *)
(* the pair <<count, iterations>> of the division that produces it.        *)
(***************************************************************************)
EXTENDS Integers, Sequences, FiniteSets, TLC

\* ------------------------------------------------------------------ bounds

\* Largest trial count (iterations) a call is made with.
MaxIter == 2
\* Longest remaining schedule (a prefix of FixtureList).
MaxMatches == 2
\* Longest sequence of random draws of a run that is recorded and replayed.
MaxTape == 6

\* --------------------------------------------------------- program constants

\* Length of every position-count vector (simulator.py:74).
PositionSlots == 10
\* Playoff places: rank < 4 qualifies (simulator.py:48, 107; analyzer.py:64).
PlayoffSpots == 4
\* Season length used by the expected cutoff (analyzer.py:80, 93, 104).
SeasonLength == 14

\* ------------------------------------------------------------------ inputs

\* The values a random draw takes, in thousandths of [0,1).
Draws == {300, 700}

\* A team identifier no standings table holds.
AbsentTeam == "NONE"

\* League sizes of the standings tables the model starts from.
LeagueSizes == {0, 3, 5, 11}

Row(t, p, w, l, n) ==
    [team |-> t, played |-> p, wins |-> w, losses |-> l, points |-> 2 * w, nrr |-> n]

\* Season-to-date table; a league of n teams is its first n rows.
StandingsTable ==
    << Row("CSK", 6, 4, 2, 100), Row("MI", 6, 4, 2, 100), Row("RCB", 9, 3, 6, 0),
       Row("KKR", 8, 2, 6, -200), Row("SRH", 3, 1, 2, -100), Row("DC", 5, 1, 4, -300),
       Row("PBKS", 4, 0, 4, -400), Row("RR", 4, 0, 4, -400), Row("GT", 4, 0, 4, -500),
       Row("LSG", 3, 0, 3, -600), Row("XI", 0, 0, 0, 0) >>

Fixture(h, a) == [homeTeam |-> h, awayTeam |-> a]

\* Remaining fixtures; a schedule is a prefix of this list.
FixtureList ==
    << Fixture("SRH", "RCB"), Fixture("CSK", "SRH"), Fixture("KKR", "MI"),
       Fixture("RCB", "KKR") >>

form_factor ==
    << [teamId |-> "CSK", recentForm |-> <<"W", "W", "L", "W", "N">>],
       [teamId |-> "RCB", recentForm |-> <<"L", "L", "L", "L", "L", "L">>],
       [teamId |-> "SRH", recentForm |-> <<"W", "L", "L">>],
       [teamId |-> "DC", recentForm |-> <<>>] >>

\* Home and away win rates in thousandths.
home_away_stats ==
    << [teamId |-> "CSK", homeWinRate |-> 700, awayWinRate |-> 600],
       [teamId |-> "SRH", homeWinRate |-> 950, awayWinRate |-> 0],
       [teamId |-> "KKR", homeWinRate |-> 250, awayWinRate |-> 250] >>

\* ------------------------------------------------------------------ helpers

Min(a, b) == IF a < b THEN a ELSE b

Max(a, b) == IF a > b THEN a ELSE b

Range(s) == {s[x] : x \in DOMAIN s}

RECURSIVE SumSeq(_)
SumSeq(s) == IF s = <<>> THEN 0 ELSE Head(s) + SumSeq(Tail(s))

\* Python's next((t for t in standings if t["team"] == team_id), None):
\* <<>> stands for None, <<t>> for the first entry found.
RECURSIVE FindTeam(_, _)
FindTeam(st, team_id) ==
    IF st = <<>> THEN <<>>
    ELSE IF Head(st).team = team_id THEN <<Head(st)>>
    ELSE FindTeam(Tail(st), team_id)

\* ---------------------------------------------------------------- EloCalculator

\* weights = [1, 0.8, 0.6, 0.4, 0.2], in tenths.
FormWeights == <<10, 8, 6, 4, 2>>

RECURSIVE FindForm(_, _)
FindForm(ff, team_id) ==
    IF ff = <<>> THEN <<>>
    ELSE IF Head(ff).teamId = team_id THEN Head(ff).recentForm
    ELSE FindForm(Tail(ff), team_id)

RECURSIVE FormSum(_, _)
FormSum(form, idx) ==
    IF idx > Len(form) \/ idx > Len(FormWeights) THEN 0
    ELSE (CASE form[idx] = "W" -> 100 * FormWeights[idx]
            [] form[idx] = "L" -> -(50 * FormWeights[idx])
            [] OTHER -> 0)
         + FormSum(form, idx + 1)

\* _calculate_form_bonus: +10*weight per "W", -5*weight per "L"; 0 when the team
\* has no (or an empty) form record.  In hundredths of a rating point.
calculate_form_bonus(team_id) == FormSum(FindForm(form_factor, team_id), 1)

\* The rating one standings row contributes on top of the base 1500; the win
\* percentage term (wins/played - 0.5) * 100 is floored to a hundredth.
RowRating(t) ==
    150000 + t.points * 1500 + t.nrr * 5 + calculate_form_bonus(t.team)
    + (IF t.played > 0 THEN (t.wins * 10000) \div t.played - 5000 ELSE 0)

\* _initialize_elo_ratings over a standings table of distinct teams.
initialize_elo_ratings(st) ==
    [id \in {st[x].team : x \in DOMAIN st} |-> RowRating(FindTeam(st, id)[1])]

get_team_rating(rt, team_id) == IF team_id \in DOMAIN rt THEN rt[team_id] ELSE 150000

RECURSIVE FindHomeAdvantage(_, _)
FindHomeAdvantage(stats, team_id) ==
    IF stats = <<>> THEN 0
    ELSE IF Head(stats).teamId = team_id THEN (Head(stats).homeWinRate - 500) * 10
    ELSE FindHomeAdvantage(Tail(stats), team_id)

\* 1000 / (1 + 10 ** (-d / 400)) tabulated for d = -800, -750, ..., 800.
EloTable ==
    << 10, 13, 17, 23, 31, 40, 53, 70, 91, 118, 151, 192, 240, 297, 360, 429, 500,
       571, 640, 703, 760, 808, 849, 882, 909, 930, 947, 960, 969, 977, 983, 987, 990 >>

\* calculate_win_probability, in thousandths: the logistic curve is read from
\* EloTable at the rating difference rounded to a multiple of 50 points and
\* clamped to [-800, 800]; the result is strictly between 0 and 1000.
calculate_win_probability(rt, home_team, away_team) ==
    LET adjusted_home_rating ==
            get_team_rating(rt, home_team)
            + Max(3000, FindHomeAdvantage(home_away_stats, home_team))
        d == adjusted_home_rating - get_team_rating(rt, away_team)
        step == Max(-16, Min(16, (d + 2500) \div 5000))
    IN  EloTable[step + 17]


\* ------------------------------------------------------- MonteCarloSimulator

VARIABLES
    standings,              \* self.standings: the season-to-date table
    schedule,               \* self.schedule: the remaining fixtures
    ratings,                \* elo_calculator.ratings
    pc,                     \* position of the running call
    call,                   \* the running (or last) call and its arguments
    sim,                    \* sim_standings: [ref, val], the list a trial updates
    i,                      \* trial index of the running loop
    m,                      \* index of the next fixture to simulate
    k,                      \* index of the next forced fixture (fixed wins)
    qualification_count,    \* run_simulation: team -> count
    position_counts,        \* run_simulation: team -> count per rank
    wins,                   \* calculate_path_to_playoffs: the win count tried
    results,                \* calculate_path_to_playoffs: win count -> entry
    remaining_matches,      \* the team's remaining fixtures
    remaining_matches_copy, \* their shuffled copy
    fixed_count,            \* _simulate_with_fixed_wins: qualification_count
    ret,                    \* what the last call returned or raised
    report,                 \* what the last analyzer query returned or raised
    mode,                   \* random source: "live", "record" or "replay"
    tape,                   \* the draws a recorded run consumed
    rest,                   \* the draws a replayed run has still to consume
    first                   \* the outcome of the recorded run being replayed

vars ==
    << standings, schedule, ratings, pc, call, sim, i, m, k, qualification_count,
       position_counts, wins, results, remaining_matches,
       remaining_matches_copy, fixed_count, ret, report, mode, tape, rest, first >>

\* _extract_teams
extract_teams(st) == [x \in DOMAIN st |-> st[x].team]

teams == extract_teams(standings)

\* A clone that shares the authoritative list instead of copying it.
clone_standings_shared == [ref |-> "self", val |-> standings]

\* _clone_standings: copy.deepcopy(self.standings), a fresh list of fresh rows.
clone_standings == [ref |-> "copy", val |-> standings]

\* random.uniform(0.05, 0.15) = 0.05 + 0.1 * u, in thousandths.
NrrDelta(u) == 50 + u \div 10

\* An update that forgets the loser's match.
RECURSIVE update_standings_winner_only(_, _, _, _)
update_standings_winner_only(st, winner_id, loser_id, ds) ==
    IF st = <<>> THEN <<>>
    ELSE LET team == Head(st) IN
         IF team.team = winner_id
         THEN << [team EXCEPT !.played = @ + 1, !.wins = @ + 1, !.points = @ + 2,
                              !.nrr = @ + NrrDelta(Head(ds))] >>
              \o update_standings_winner_only(Tail(st), winner_id, loser_id, Tail(ds))
         ELSE IF team.team = loser_id
         THEN <<team>>
              \o update_standings_winner_only(Tail(st), winner_id, loser_id, Tail(ds))
         ELSE <<team>> \o update_standings_winner_only(Tail(st), winner_id, loser_id, ds)

\* _update_standings: every row of the winner gains a match, a win, 2 points and
\* a net-run-rate bonus, every row of the loser a match, a loss and a malus; ds
\* are the draws the rows consume, in row order.
RECURSIVE update_standings(_, _, _, _)
update_standings(st, winner_id, loser_id, ds) ==
    IF st = <<>> THEN <<>>
    ELSE LET team == Head(st) IN
         IF team.team = winner_id
         THEN << [team EXCEPT !.played = @ + 1, !.wins = @ + 1, !.points = @ + 2,
                              !.nrr = @ + NrrDelta(Head(ds))] >>
              \o update_standings(Tail(st), winner_id, loser_id, Tail(ds))
         ELSE IF team.team = loser_id
         THEN << [team EXCEPT !.played = @ + 1, !.losses = @ + 1,
                              !.nrr = @ - NrrDelta(Head(ds))] >>
              \o update_standings(Tail(st), winner_id, loser_id, Tail(ds))
         ELSE <<team>> \o update_standings(Tail(st), winner_id, loser_id, ds)

\* The number of draws _update_standings consumes for a fixture: one per row of
\* either side.
HitCount(st, match) ==
    Cardinality({x \in DOMAIN st : st[x].team \in {match.homeTeam, match.awayTeam}})

\* key=lambda x: (x["points"], x["nrr"]) compared as tuples.
KeyGreater(a, b) == a.points > b.points \/ (a.points = b.points /\ a.nrr > b.nrr)

\* Where x goes in a descending list: before the first row whose key is smaller.
RECURSIVE InsertAt(_, _, _)
InsertAt(sorted, x, pos) ==
    IF pos > Len(sorted) THEN pos
    ELSE IF KeyGreater(x, sorted[pos]) THEN pos
    ELSE InsertAt(sorted, x, pos + 1)

\* An ordering that puts a row before the rows it ties with.
RECURSIVE InsertAtTiesFirst(_, _, _)
InsertAtTiesFirst(sorted, x, pos) ==
    IF pos > Len(sorted) THEN pos
    ELSE IF ~KeyGreater(sorted[pos], x) THEN pos
    ELSE InsertAtTiesFirst(sorted, x, pos + 1)

InsertRowTiesFirst(sorted, x) ==
    LET pos == InsertAtTiesFirst(sorted, x, 1)
    IN  SubSeq(sorted, 1, pos - 1) \o <<x>> \o SubSeq(sorted, pos, Len(sorted))

InsertRow(sorted, x) ==
    LET pos == InsertAt(sorted, x, 1)
    IN  SubSeq(sorted, 1, pos - 1) \o <<x>> \o SubSeq(sorted, pos, Len(sorted))

RECURSIVE SortInto(_, _)
SortInto(sorted, st) ==
    IF st = <<>> THEN sorted ELSE SortInto(InsertRow(sorted, Head(st)), Tail(st))

\* sorted(standings, key=(points, nrr), reverse=True): Python's sort is stable,
\* also with reverse=True, so rows with equal keys keep their input order.
SortStandings(st) == SortInto(<<>>, st)

\* A top slice one place short.
get_playoff_teams_top_three(st) ==
    LET sorted_teams == SortStandings(st)
    IN  [x \in 1..Min(PlayoffSpots - 1, Len(sorted_teams)) |-> sorted_teams[x].team]

\* _get_playoff_teams: the identifiers of sorted_teams[:4].
get_playoff_teams(st) ==
    LET sorted_teams == SortStandings(st)
    IN  [x \in 1..Min(PlayoffSpots, Len(sorted_teams)) |-> sorted_teams[x].team]

\* A match that consults the rating model whatever use_elo says.
simulate_match_always_elo(rt, match, use_elo, u) ==
    IF u < calculate_win_probability(rt, match.homeTeam, match.awayTeam)
    THEN match.homeTeam ELSE match.awayTeam

\* simulate_match with the draw u of random.random(): the home team wins iff
\* u < home_win_prob, which is 0.5 without the rating model.
simulate_match(rt, match, use_elo, u) ==
    LET home_win_prob ==
            IF use_elo THEN calculate_win_probability(rt, match.homeTeam, match.awayTeam)
            ELSE 500
    IN  IF u < home_win_prob THEN match.homeTeam ELSE match.awayTeam

\* loser = match["awayTeam"] if winner == match["homeTeam"] else match["homeTeam"]
OtherSide(match, winner) ==
    IF winner = match.homeTeam THEN match.awayTeam ELSE match.homeTeam

\* ------------------------------------------------------------ random source

\* The next n draws of the random source: any values when the source is live or
\* recorded, the recorded ones when a run is replayed from the same seed.
NextDraws(n) ==
    IF mode = "replay" THEN {SubSeq(rest, 1, n)} ELSE [1..n -> Draws]

Consume(ds) ==
    /\ tape' = IF mode = "record" THEN tape \o ds ELSE tape
    /\ rest' = IF mode = "replay" THEN SubSeq(rest, Len(ds) + 1, Len(rest)) ELSE rest

\* The draws one trial of run_simulation consumes: per fixture one for the
\* winner and one per standings row of either side.
RECURSIVE DrawsPerTrial(_, _)
DrawsPerTrial(st, sched) ==
    IF sched = <<>> THEN 0
    ELSE 1 + HitCount(st, Head(sched)) + DrawsPerTrial(st, Tail(sched))

\* ------------------------------------------------------------------- state

None == [kind |-> "none"]

NoQuery == [op |-> "none"]

NoSim == [ref |-> "none", val |-> <<>>]

Raised(e) == [kind |-> "raised", exc |-> e]

Idle == pc \in {"idle", "returned", "raised"}

\* The list a trial updates is written through its reference: a write to a
\* list that is self.standings itself is a write to self.standings.
WriteSim(val) ==
    /\ sim' = [sim EXCEPT !.val = val]
    /\ standings' = IF sim.ref = "self" THEN val ELSE standings

Init ==
    /\ \E n \in LeagueSizes : standings = SubSeq(StandingsTable, 1, n)
    /\ \E len \in 0..Min(MaxMatches, Len(FixtureList)) :
           schedule = SubSeq(FixtureList, 1, len)
    /\ ratings = initialize_elo_ratings(standings)
    /\ pc = "idle"
    /\ call = [op |-> "none"]
    /\ sim = NoSim
    /\ i = 0 /\ m = 0 /\ k = 0
    /\ qualification_count = <<>>
    /\ position_counts = <<>>
    /\ wins = 0
    /\ results = <<>>
    /\ remaining_matches = <<>>
    /\ remaining_matches_copy = <<>>
    /\ fixed_count = 0
    /\ ret = None
    /\ report = NoQuery
    /\ mode = "live"
    /\ tape = <<>>
    /\ rest = <<>>
    /\ first = None

\* ------------------------------------------------------------ run_simulation

\* run_simulation up to the first trial's clone (simulator.py:68-82).
StartRun(iterations, use_elo, new_mode, new_rest, new_first) ==
    /\ call' = [op |-> "run_simulation", iterations |-> iterations, use_elo |-> use_elo]
    /\ qualification_count' = [t \in Range(teams) |-> 0]
    /\ position_counts' = [t \in Range(teams) |-> [p \in 1..PositionSlots |-> 0]]
    /\ i' = 0 /\ m' = 1 /\ k' = 0
    /\ sim' = clone_standings
    /\ wins' = 0 /\ results' = <<>> /\ fixed_count' = 0
    /\ remaining_matches' = <<>> /\ remaining_matches_copy' = <<>>
    /\ ret' = None /\ report' = NoQuery
    /\ mode' = new_mode /\ tape' = <<>> /\ rest' = new_rest /\ first' = new_first
    /\ pc' = "run_trial"
    /\ UNCHANGED <<standings, schedule, ratings>>

\* A call of run_simulation(iterations, use_elo); its draws are recorded when
\* there are at most MaxTape of them.
RunSimulation ==
    /\ Idle
    /\ \E iterations \in 1..MaxIter, use_elo \in BOOLEAN :
           StartRun(iterations, use_elo,
                    IF iterations * DrawsPerTrial(standings, schedule) <= MaxTape
                    THEN "record" ELSE "live",
                    <<>>, None)

\* A second run of the recorded call, the random source seeded as for the first.
RunSimulationAgain ==
    /\ pc \in {"returned", "raised"}
    /\ call.op = "run_simulation"
    /\ mode = "record"
    /\ StartRun(call.iterations, call.use_elo, "replay", tape, ret)

\* One pass of the fixture loop (simulator.py:86-92): simulate the match, update
\* both sides.
SimulateNextMatch ==
    /\ pc = "run_trial"
    /\ m <= Len(schedule)
    /\ LET match == schedule[m] IN
       \E ds \in NextDraws(1 + HitCount(sim.val, match)) :
           LET winner == simulate_match(ratings, match, call.use_elo, Head(ds))
               loser == OtherSide(match, winner)
           IN  /\ WriteSim(update_standings(sim.val, winner, loser, Tail(ds)))
               /\ Consume(ds)
    /\ m' = m + 1
    /\ UNCHANGED <<schedule, ratings, pc, call, i, k, qualification_count,
                   position_counts, wins, results,
                   remaining_matches, remaining_matches_copy, fixed_count, ret,
                   report, mode, first>>

\* A trial that counts the first five ranks as qualified.
RECURSIVE RecordFromTopFive(_, _, _)
RecordFromTopFive(counts, sorted, pos) ==
    IF pos > Len(sorted) \/ pos > PositionSlots THEN counts
    ELSE LET team_id == sorted[pos].team IN
         RecordFromTopFive(
             [position |-> [counts.position EXCEPT ![team_id][pos] = @ + 1],
              qualification |->
                  IF pos - 1 < PlayoffSpots + 1
                  THEN [counts.qualification EXCEPT ![team_id] = @ + 1]
                  ELSE counts.qualification],
             sorted, pos + 1)

\* The recording loop (simulator.py:102-108) from 1-based place pos on: the
\* team's counter of rank pos - 1 grows by one, and its qualification counter
\* too when that rank is < 4.  Ranks beyond the counters' length are not
\* recorded (the code raises there).
RECURSIVE RecordFrom(_, _, _)
RecordFrom(counts, sorted, pos) ==
    IF pos > Len(sorted) \/ pos > PositionSlots THEN counts
    ELSE LET team_id == sorted[pos].team IN
         RecordFrom(
             [position |-> [counts.position EXCEPT ![team_id][pos] = @ + 1],
              qualification |->
                  IF pos - 1 < PlayoffSpots
                  THEN [counts.qualification EXCEPT ![team_id] = @ + 1]
                  ELSE counts.qualification],
             sorted, pos + 1)

\* The result dictionary (simulator.py:115-131): each counter over iterations.
SimulationResult(qcount, pcounts, iterations) ==
    [kind |-> "returned",
     qualification_probability |-> [t \in DOMAIN qcount |-> <<qcount[t], iterations>>],
     position_probability |->
         [t \in DOMAIN pcounts |->
             [p \in DOMAIN pcounts[t] |-> <<pcounts[t][p], iterations>>]]]

\* The end of a trial (simulator.py:94-108): sort, record every rank; then the
\* next trial's clone, or after the last trial the result.  A league of more
\* than 10 teams raises IndexError at rank 10.
RecordPositions ==
    /\ pc = "run_trial"
    /\ m > Len(schedule)
    /\ LET sorted == SortStandings(sim.val)
           counts == RecordFrom([position |-> position_counts,
                                 qualification |-> qualification_count], sorted, 1)
       IN  /\ position_counts' = counts.position
           /\ qualification_count' = counts.qualification
           /\ IF Len(sorted) > PositionSlots
              THEN /\ pc' = "raised"
                   /\ ret' = Raised("IndexError")
                   /\ UNCHANGED <<sim, i, m>>
              ELSE IF i + 1 < call.iterations
              THEN /\ pc' = "run_trial"
                   /\ i' = i + 1
                   /\ m' = 1
                   /\ sim' = clone_standings
                   /\ UNCHANGED ret
              ELSE /\ pc' = "returned"
                   /\ i' = i + 1
                   /\ ret' = SimulationResult(counts.qualification, counts.position,
                                              call.iterations)
                   /\ sim' = NoSim
                   /\ UNCHANGED m
    /\ UNCHANGED <<standings, schedule, ratings, call, k, wins, results,
                   remaining_matches, remaining_matches_copy, fixed_count, report,
                   mode, tape, rest, first>>

\* ------------------------------------------------ calculate_path_to_playoffs

Involves(match, team_id) == match.homeTeam = team_id \/ match.awayTeam = team_id

RECURSIVE SelectInvolving(_, _)
SelectInvolving(sched, team_id) ==
    IF sched = <<>> THEN <<>>
    ELSE (IF Involves(Head(sched), team_id) THEN <<Head(sched)>> ELSE <<>>)
         \o SelectInvolving(Tail(sched), team_id)

\* A list of other fixtures that leaves the team's own fixtures in.
OtherMatchesAll(sched, remaining) == sched

\* other_matches = [m for m in self.schedule if m not in remaining_matches]
RECURSIVE OtherMatches(_, _)
OtherMatches(sched, remaining) ==
    IF sched = <<>> THEN <<>>
    ELSE (IF Head(sched) \in Range(remaining) THEN <<>> ELSE <<Head(sched)>>)
         \o OtherMatches(Tail(sched), remaining)

Swap(s, a, b) == [s EXCEPT ![a] = s[b], ![b] = s[a]]

\* random.shuffle: for each place from the last down to the second, swap it with
\* a place drawn at or below it; ds holds one draw per swap.
RECURSIVE Shuffle(_, _, _)
Shuffle(s, pos, ds) ==
    IF pos < 2 THEN s
    ELSE Shuffle(Swap(s, pos, (Head(ds) * pos) \div 1000 + 1), pos - 1, Tail(ds))

\* The first trial of _simulate_with_fixed_wins for a win count
\* (simulator.py:172-178).
StartFixedWins(w) ==
    /\ wins' = w
    /\ fixed_count' = 0
    /\ i' = 0
    /\ sim' = clone_standings
    /\ remaining_matches_copy' = <<>>
    /\ k' = 1 /\ m' = 1
    /\ pc' = "fw_shuffle"

\* A path that goes on without the team's row and fails at its points.
PathTeamNotFoundRaises ==
    /\ Idle
    /\ \E team_id \in {AbsentTeam, "SRH"} :
           /\ FindTeam(standings, team_id) = <<>>
           /\ call' = [op |-> "calculate_path_to_playoffs", team_id |-> team_id,
                       iterations |-> 0, current_points |-> 0]
    /\ ret' = Raised("TypeError")
    /\ pc' = "raised"
    /\ report' = NoQuery
    /\ UNCHANGED <<standings, schedule, ratings, sim, i, m, k, qualification_count,
                   position_counts, wins, results,
                   remaining_matches, remaining_matches_copy, fixed_count, mode,
                   tape, rest, first>>

\* calculate_path_to_playoffs for a team the standings do not hold
\* (simulator.py:136-140): the degenerate entry, no trial.
PathTeamNotFound ==
    /\ Idle
    /\ \E team_id \in {AbsentTeam, "SRH"} :
           /\ FindTeam(standings, team_id) = <<>>
           /\ call' = [op |-> "calculate_path_to_playoffs", team_id |-> team_id,
                       iterations |-> 0, current_points |-> 0]
    /\ ret' = [kind |-> "returned",
               entries |-> (0 :> [potential_points |-> 0,
                                  qualification_probability |-> <<0, 1>>]),
               mins |-> <<>>]
    /\ pc' = "returned"
    /\ report' = NoQuery
    /\ UNCHANGED <<standings, schedule, ratings, sim, i, m, k, qualification_count,
                   position_counts, wins, results,
                   remaining_matches, remaining_matches_copy, fixed_count, mode,
                   tape, rest, first>>

\* calculate_path_to_playoffs(team_id, iterations) for a team of the standings,
\* up to the first trial of win count 0 (simulator.py:142-157).
CalculatePathToPlayoffs ==
    /\ Idle
    /\ \E team_id \in Range(teams), iterations \in 1..MaxIter :
           /\ call' = [op |-> "calculate_path_to_playoffs", team_id |-> team_id,
                       iterations |-> iterations,
                       current_points |-> FindTeam(standings, team_id)[1].points]
           /\ remaining_matches' = SelectInvolving(schedule, team_id)
    /\ results' = <<>>
    /\ StartFixedWins(0)
    /\ qualification_count' = <<>> /\ position_counts' = <<>>
    /\ ret' = None /\ report' = NoQuery
    /\ mode' = "live" /\ tape' = <<>> /\ rest' = <<>> /\ first' = None
    /\ UNCHANGED <<standings, schedule, ratings>>

\* remaining_matches.copy() and its shuffle (simulator.py:181-182).
ShuffleRemaining ==
    /\ pc = "fw_shuffle"
    /\ \E ds \in NextDraws(Max(0, Len(remaining_matches) - 1)) :
           /\ remaining_matches_copy' =
                  Shuffle(remaining_matches, Len(remaining_matches), ds)
           /\ Consume(ds)
    /\ pc' = "fw_trial"
    /\ UNCHANGED <<standings, schedule, ratings, call, sim, i, m, k,
                   qualification_count, position_counts, wins,
                   results, remaining_matches, fixed_count, ret, report, mode, first>>

\* One of the team's own fixtures (simulator.py:185-197): a win for the first
\* `wins` of the shuffled copy, a loss for the rest.
ApplyFixedMatch ==
    /\ pc = "fw_trial"
    /\ k <= Len(remaining_matches_copy)
    /\ LET match == remaining_matches_copy[k]
           team_id == call.team_id
           winner == IF k <= wins THEN team_id
                     ELSE IF team_id = match.homeTeam THEN match.awayTeam
                     ELSE match.homeTeam
           loser == IF k <= wins THEN OtherSide(match, team_id) ELSE team_id
       IN  \E ds \in NextDraws(HitCount(sim.val, match)) :
               /\ WriteSim(update_standings(sim.val, winner, loser, ds))
               /\ Consume(ds)
    /\ k' = k + 1
    /\ UNCHANGED <<schedule, ratings, pc, call, i, m, qualification_count,
                   position_counts, wins, results,
                   remaining_matches, remaining_matches_copy, fixed_count, ret,
                   report, mode, first>>

\* One of the other fixtures (simulator.py:200-204), simulated with the rating
\* model.
SimulateOtherMatch ==
    /\ pc = "fw_trial"
    /\ k > Len(remaining_matches_copy)
    /\ LET other_matches == OtherMatches(schedule, remaining_matches) IN
       /\ m <= Len(other_matches)
       /\ LET match == other_matches[m] IN
          \E ds \in NextDraws(1 + HitCount(sim.val, match)) :
              LET winner == simulate_match(ratings, match, TRUE, Head(ds))
                  loser == OtherSide(match, winner)
              IN  /\ WriteSim(update_standings(sim.val, winner, loser, Tail(ds)))
                  /\ Consume(ds)
    /\ m' = m + 1
    /\ UNCHANGED <<schedule, ratings, pc, call, i, k, qualification_count,
                   position_counts, wins, results,
                   remaining_matches, remaining_matches_copy, fixed_count, ret,
                   report, mode, first>>

\* qualification_prob >= 0.9 for the quotient count / iterations.
MeetsThreshold(prob) == 10 * prob[1] >= 9 * prob[2]

\* A path loop that never stops early.
path_stops_never(prob) == FALSE

\* The early exit of the win-count loop (simulator.py:165-168).
path_stops(prob) == MeetsThreshold(prob)

\* The end of a fixed-wins trial (simulator.py:207-211): count the trial if the
\* team is in the top 4, then the next trial; after the last trial the win
\* count's entry (simulator.py:159-170), then the next win count, or the result
\* when the threshold is met or every win count has been tried.
CheckQualified ==
    /\ pc = "fw_trial"
    /\ k > Len(remaining_matches_copy)
    /\ m > Len(OtherMatches(schedule, remaining_matches))
    /\ LET playoff_teams == get_playoff_teams(sim.val)
           count == fixed_count + (IF call.team_id \in Range(playoff_teams) THEN 1 ELSE 0)
           potential_points == call.current_points + wins * 2
           qualification_prob == <<count, call.iterations>>
           entries == results @@ (wins :> [potential_points |-> potential_points,
                                           qualification_probability |-> qualification_prob])
       IN  /\ IF i + 1 < call.iterations
              THEN /\ fixed_count' = count
                   /\ i' = i + 1
                   /\ sim' = clone_standings
                   /\ remaining_matches_copy' = <<>>
                   /\ k' = 1 /\ m' = 1
                   /\ pc' = "fw_shuffle"
                   /\ UNCHANGED <<wins, results, ret>>
              ELSE IF path_stops(qualification_prob)
              THEN /\ results' = entries
                   /\ ret' = [kind |-> "returned", entries |-> entries,
                              mins |-> <<wins, potential_points>>]
                   /\ fixed_count' = count
                   /\ i' = i + 1
                   /\ pc' = "returned"
                   /\ sim' = NoSim
                   /\ UNCHANGED <<wins, remaining_matches_copy, k, m>>
              ELSE IF wins + 1 < Len(remaining_matches) + 1
              THEN /\ results' = entries
                   /\ StartFixedWins(wins + 1)
                   /\ UNCHANGED ret
              ELSE /\ results' = entries
                   /\ ret' = [kind |-> "returned", entries |-> entries, mins |-> <<>>]
                   /\ fixed_count' = count
                   /\ i' = i + 1
                   /\ pc' = "returned"
                   /\ sim' = NoSim
                   /\ UNCHANGED <<wins, remaining_matches_copy, k, m>>
    /\ UNCHANGED <<standings, schedule, ratings, call, qualification_count,
                   position_counts, remaining_matches, report, mode, tape, rest, first>>

\* ------------------------------------------------------------ PlayoffsAnalyzer
\* The analyzer is built, as in main.py, from the result run_simulation returned
\* and the same standings list; a query's value is <<>> for None, <<v>> for v.

Returned(value) == [kind |-> "returned", value |-> value]

Query(op, arg, out) == [op |-> op, arg |-> arg, out |-> out]

\* find_current_playoff_cutoff (analyzer.py:55-67).
find_current_playoff_cutoff(st) ==
    LET sorted == SortStandings(st)
    IN  IF Len(sorted) >= PlayoffSpots THEN <<sorted[PlayoffSpots].points>> ELSE <<>>

\* positions[3] of every team of the result, as counts, in standings order.
FourthPlaceCounts(st, res) ==
    [x \in DOMAIN st |->
        IF st[x].team \in DOMAIN res.position_probability
        THEN res.position_probability[st[x].team][PlayoffSpots][1] ELSE 0]

\* (current_points + 14 - played) * count of finishing 4th, per team.
WeightedTerms(st, res) ==
    [x \in DOMAIN st |->
        (st[x].points + (SeasonLength - st[x].played)) * FourthPlaceCounts(st, res)[x]]

\* int(weighted_points): the float sum of the terms' quotients truncated toward
\* zero.  When the exact sum is a whole number that inexact quotients add up
\* to, the float sum may fall just short of it, and int() then gives the
\* neighbour toward zero.
IntOfWeighted(terms, total) ==
    LET n == SumSeq(terms)
        exact == IF n >= 0 THEN n \div total ELSE -((-n) \div total)
        inexact == \E x \in DOMAIN terms : terms[x] % total # 0
    IN  IF n % total = 0 /\ inexact
        THEN {exact} \cup (IF exact > 0 THEN {exact - 1} ELSE {})
                     \cup (IF exact < 0 THEN {exact + 1} ELSE {})
        ELSE {exact}

\* calculate_expected_cutoff (analyzer.py:69-109): the outcomes it can have.
calculate_expected_cutoff(st, res) ==
    LET sorted == SortStandings(st)
        current_cutoff ==
            IF Len(sorted) >= PlayoffSpots THEN sorted[PlayoffSpots].points ELSE 0
        total_prob == SumSeq(FourthPlaceCounts(st, res))
    IN  IF Len(st) = 0 THEN {Raised("ZeroDivisionError")}
        ELSE IF total_prob = 0
        THEN {Returned(<<Max(SeasonLength, current_cutoff + 4)>>)}
        ELSE {Returned(<<Max(w, current_cutoff + 2)>>) :
                 w \in IntOfWeighted(WeightedTerms(st, res), total_prob)}

\* generate_qualification_scenarios (analyzer.py:111-134) once the expected
\* cutoff has had the outcome c.
qualification_scenario(st, res, team_id, c) ==
    LET team_standing == FindTeam(st, team_id) IN
    IF team_standing = <<>> THEN Returned(<<>>)
    ELSE IF c.kind = "raised" THEN c
    ELSE IF team_id \notin DOMAIN res.qualification_probability
    THEN Raised("KeyError")
    ELSE LET current_points == team_standing[1].points
             expected_cutoff == c.value[1]
             points_needed == Max(0, expected_cutoff - current_points)
         IN  Returned(<< [team |-> team_id,
                          current_points |-> current_points,
                          expected_cutoff |-> expected_cutoff,
                          points_needed |-> points_needed,
                          wins_needed |-> (points_needed + 1) \div 2,
                          qualification_probability |->
                              res.qualification_probability[team_id]] >>)

\* generate_qualification_scenarios (analyzer.py:111-134): the outcomes it can
\* have.
generate_qualification_scenarios(st, res, team_id) ==
    {qualification_scenario(st, res, team_id, c) : c \in calculate_expected_cutoff(st, res)}

\* Where the pair x = <<team, prob>> goes in a list descending by probability:
\* before the first pair of smaller probability (counts over the same
\* iterations).
RECURSIVE InsertProbAt(_, _, _)
InsertProbAt(sorted, x, pos) ==
    IF pos > Len(sorted) THEN pos
    ELSE IF x[2][1] > sorted[pos][2][1] THEN pos
    ELSE InsertProbAt(sorted, x, pos + 1)

RECURSIVE SortProbsInto(_, _)
SortProbsInto(sorted, items) ==
    IF items = <<>> THEN sorted
    ELSE LET pos == InsertProbAt(sorted, Head(items), 1)
         IN  SortProbsInto(SubSeq(sorted, 1, pos - 1) \o <<Head(items)>>
                               \o SubSeq(sorted, pos, Len(sorted)),
                           Tail(items))

\* get_qualification_probabilities (analyzer.py:8-19): the (team, prob) items of
\* the result, in the order of team_ids, sorted by probability descending.
get_qualification_probabilities(res, team_ids) ==
    SortProbsInto(<<>>, [x \in DOMAIN team_ids |->
                            <<team_ids[x], res.qualification_probability[team_ids[x]]>>])

\* generate_playoff_report (analyzer.py:136-151): the outcomes it can have.  The
\* expected cutoff is computed once for the report and again, with the same
\* outcome, for every team's scenario.
generate_playoff_report(st, res, team_ids) ==
    {IF c.kind = "raised" THEN c
     ELSE LET scenarios ==
                  [t \in Range(team_ids) |-> qualification_scenario(st, res, t, c)]
          IN  IF \E t \in Range(team_ids) : scenarios[t].kind = "raised"
              THEN Raised("KeyError")
              ELSE Returned(<< [qualification_probabilities |->
                                    get_qualification_probabilities(res, team_ids),
                                current_cutoff |-> find_current_playoff_cutoff(st),
                                expected_cutoff |-> c.value[1],
                                team_scenarios |->
                                    [t \in Range(team_ids) |-> scenarios[t].value]] >>)
     : c \in calculate_expected_cutoff(st, res)}

HasAnalyzer == pc = "returned" /\ call.op = "run_simulation"

AnalyzerFrame ==
    UNCHANGED <<standings, schedule, ratings, pc, call, sim, i, m, k,
                qualification_count, position_counts, wins, results,
                remaining_matches, remaining_matches_copy, fixed_count, ret, mode,
                tape, rest, first>>

FindCurrentPlayoffCutoff ==
    /\ HasAnalyzer
    /\ report' = Query("find_current_playoff_cutoff", "",
                       Returned(find_current_playoff_cutoff(standings)))
    /\ AnalyzerFrame

CalculateExpectedCutoff ==
    /\ HasAnalyzer
    /\ \E out \in calculate_expected_cutoff(standings, ret) :
           report' = Query("calculate_expected_cutoff", "", out)
    /\ AnalyzerFrame

GenerateQualificationScenarios ==
    /\ HasAnalyzer
    /\ \E team_id \in Range(teams) \cup {AbsentTeam} :
           \E out \in generate_qualification_scenarios(standings, ret, team_id) :
               report' = Query("generate_qualification_scenarios", team_id, out)
    /\ AnalyzerFrame

GeneratePlayoffReport ==
    /\ HasAnalyzer
    /\ \E out \in generate_playoff_report(standings, ret, teams) :
           report' = Query("generate_playoff_report", "", out)
    /\ AnalyzerFrame

Next ==
    \/ RunSimulation
    \/ RunSimulationAgain
    \/ SimulateNextMatch
    \/ RecordPositions
    \/ PathTeamNotFound
    \/ CalculatePathToPlayoffs
    \/ ShuffleRemaining
    \/ ApplyFixedMatch
    \/ SimulateOtherMatch
    \/ CheckQualified
    \/ FindCurrentPlayoffCutoff
    \/ CalculateExpectedCutoff
    \/ GenerateQualificationScenarios
    \/ GeneratePlayoffReport

Spec == Init /\ [][Next]_vars

\* ------------------------------------------------------------------ claims

\* The season-to-date table the simulator was constructed with.
InitialStandings == SubSeq(StandingsTable, 1, Len(standings))

\* The fixtures among sched that have team_id as home or away side.
CountInvolving(sched, team_id) ==
    Cardinality({x \in DOMAIN sched : Involves(sched[x], team_id)})

\* The place (1-based) of row x of st under the tie-break order, stated without
\* sorting: one more than the number of rows that come before it, a row coming
\* before another when it has more points, or equal points and a higher net run
\* rate, or equal both and an earlier place in st.
RankOf(st, x) ==
    1 + Cardinality({y \in DOMAIN st :
            \/ st[y].points > st[x].points
            \/ st[y].points = st[x].points /\ st[y].nrr > st[x].nrr
            \/ st[y].points = st[x].points /\ st[y].nrr = st[x].nrr /\ y < x})

RunTrialEnd == pc = "run_trial" /\ m > Len(schedule)

FixedTrialEnd ==
    /\ pc = "fw_trial"
    /\ k > Len(remaining_matches_copy)
    /\ m > Len(OtherMatches(schedule, remaining_matches))

RunReturned == pc = "returned" /\ call.op = "run_simulation"

PathReturned == pc = "returned" /\ call.op = "calculate_path_to_playoffs"

IsOne(prob) == prob[1] = prob[2]

IsZero(prob) == prob[1] = 0

\* C1: throughout a trial of run_simulation the trial's standings hold one row
\* per team, in the table's order, and after the first m - 1 fixtures each row's
\* played count is its initial count plus the number of those fixtures that
\* involve the team, wins + losses have grown by as much, and points by 2 per
\* win; at the end of the trial (m past the schedule) that is every fixture of
\* the schedule, each played once.
C1_TrialPlaysEveryFixtureOnce ==
    pc = "run_trial" =>
        /\ m \in 1..(Len(schedule) + 1)
        /\ Len(sim.val) = Len(InitialStandings)
        /\ \A x \in DOMAIN sim.val :
               LET row == sim.val[x]
                   old == InitialStandings[x]
                   n == CountInvolving(SubSeq(schedule, 1, m - 1), old.team)
               IN  /\ row.team = old.team
                   /\ row.played = old.played + n
                   /\ row.wins + row.losses = old.wins + old.losses + n
                   /\ row.wins >= old.wins /\ row.losses >= old.losses
                   /\ row.points = old.points + 2 * (row.wins - old.wins)

C1_Witness ==
    /\ RunTrialEnd
    /\ i = 1
    /\ Len(schedule) = 2
    /\ Len(standings) = 5
    /\ \E x \in DOMAIN sim.val : sim.val[x].played = InitialStandings[x].played + 2

\* C2: self.standings is, in every state, the table the simulator was built
\* with, field by field, and every trial of either operation starts from it.
C2_StandingsNeverMutated ==
    /\ standings = InitialStandings
    /\ ((pc = "run_trial" /\ m = 1) \/ pc = "fw_shuffle") => sim.val = InitialStandings

C2_Witness ==
    /\ pc = "fw_shuffle"
    /\ call.team_id = "SRH"
    /\ wins = 1
    /\ i = 1
    /\ Len(remaining_matches) = 2

\* C3: every ranking follows the tie-break order (points descending, then net
\* run rate descending, then input order).  The step that ends a trial of
\* run_simulation counts each team at its place in that order and counts it as
\* qualified iff its rank is < 4; the step that ends a fixed-wins trial counts
\* the team iff its rank is < 4; find_current_playoff_cutoff reports the points
\* of the row at rank 3, and calculate_expected_cutoff never returns less than
\* those points + 2.
RankingStep ==
    /\ RunTrialEnd =>
           \A x \in DOMAIN sim.val :
               LET t == sim.val[x].team
                   place == RankOf(sim.val, x)
               IN  /\ \A p \in 1..PositionSlots :
                          position_counts'[t][p] =
                              position_counts[t][p] + (IF p = place THEN 1 ELSE 0)
                   /\ qualification_count'[t] =
                          qualification_count[t] + (IF place - 1 < 4 THEN 1 ELSE 0)
    /\ FixedTrialEnd =>
           \A x \in DOMAIN sim.val :
               sim.val[x].team = call.team_id =>
                   LET count == fixed_count + (IF RankOf(sim.val, x) - 1 < 4 THEN 1 ELSE 0)
                   IN  IF i + 1 < call.iterations
                       THEN fixed_count' = count
                       ELSE results'[wins].qualification_probability =
                                <<count, call.iterations>>
    /\ report'.op = "find_current_playoff_cutoff" =>
           \A x \in DOMAIN standings :
               RankOf(standings, x) = 4 => report'.out.value = <<standings[x].points>>
    /\ (report'.op = "calculate_expected_cutoff" /\ report'.out.kind = "returned") =>
           \A x \in DOMAIN standings :
               RankOf(standings, x) = 4 => report'.out.value[1] >= standings[x].points + 2

C3_RankingFollowsTieBreak == [][RankingStep]_vars

\* A trial of run_simulation has ended with two rows equal on points and net run
\* rate and a changed table.
C3_Witness ==
    /\ RunTrialEnd
    /\ Len(schedule) = 1
    /\ Len(standings) = 5
    /\ \E x, y \in DOMAIN sim.val :
           /\ x < y
           /\ sim.val[x].points = sim.val[y].points
           /\ sim.val[x].nrr = sim.val[y].nrr
    /\ sim.val # standings

\* C4 (as claimed): run_simulation completes, and its result gives each team a
\* qualification probability in [0,1] and a position-probability vector as long
\* as the league whose entries sum to 1.
C4_PositionVectorAsLongAsLeague ==
    (call.op = "run_simulation" /\ pc \in {"returned", "raised"}) =>
        /\ pc = "returned"
        /\ \A t \in Range(teams) :
               LET q == ret.qualification_probability[t]
                   v == ret.position_probability[t]
               IN  /\ 0 <= q[1] /\ q[1] <= q[2]
                   /\ Len(v) = Len(standings)
                   /\ SumSeq([p \in DOMAIN v |-> v[p][1]]) = call.iterations

C6_SameSeedSameResult ==
    (call.op = "run_simulation" /\ mode = "replay" /\ pc \in {"returned", "raised"})
        => ret = first

\* A replayed run of two trials that differed has returned.
C6_Witness ==
    /\ mode = "replay"
    /\ RunReturned
    /\ call.iterations = 2
    /\ Len(standings) = 5
    /\ \E t \in Range(teams) : ret.qualification_probability[t] = <<1, 2>>

\* C7 (as claimed): for a team of the standings with no remaining fixture the
\* path holds the single entry of win count 0, and its probability is the
\* team's current top-4 membership, whatever else the schedule holds.
C7_ZeroFixturesGivesCurrentMembership ==
    (PathReturned /\ call.iterations > 0 /\ remaining_matches = <<>>) =>
        /\ DOMAIN ret.entries = {0}
        /\ \A x \in DOMAIN standings :
               standings[x].team = call.team_id =>
                   IF RankOf(standings, x) - 1 < 4
                   THEN IsOne(ret.entries[0].qualification_probability)
                   ELSE IsZero(ret.entries[0].qualification_probability)

\* C7 (amended): for a team of the standings with no remaining fixture the path
\* holds the single entry of win count 0, with the team's current points and a
\* probability that is a count of trials over the trial count; when the schedule
\* is empty that probability is the team's current top-4 membership.
C7_ZeroFixturesEmptyScheduleGivesMembership ==
    (PathReturned /\ call.iterations > 0 /\ remaining_matches = <<>>) =>
        /\ DOMAIN ret.entries = {0}
        /\ \A x \in DOMAIN standings :
               standings[x].team = call.team_id =>
                   LET q == ret.entries[0].qualification_probability IN
                   /\ ret.entries[0].potential_points = standings[x].points
                   /\ q[2] = call.iterations /\ 0 <= q[1] /\ q[1] <= q[2]
                   /\ schedule = <<>> =>
                          IF RankOf(standings, x) - 1 < 4 THEN IsOne(q) ELSE IsZero(q)

C7_Witness ==
    /\ PathReturned
    /\ call.team_id = "KKR"
    /\ call.iterations = 2
    /\ schedule = <<>>
    /\ Len(standings) = 5
    /\ IsOne(ret.entries[0].qualification_probability)

\* C8: while the path is computed the entries present are those of the win counts
\* below the one being tried, none of which meets the 0.9 threshold; the result
\* holds the entries of 0..W and no other, with potential points current + 2w,
\* where either W meets the threshold, is the least win count to do so and is
\* recorded with its points as the minimum, or W is the remaining-fixture count,
\* no win count meets the threshold and no minimum is recorded.
C8_PathStopsAtFirstWinCountMeetingThreshold ==
    /\ pc \in {"fw_shuffle", "fw_trial"} =>
           /\ wins \in 0..Len(remaining_matches)
           /\ DOMAIN results = 0..(wins - 1)
           /\ \A w \in DOMAIN results : ~MeetsThreshold(results[w].qualification_probability)
    /\ (PathReturned /\ call.iterations > 0) =>
           \E W \in 0..Len(remaining_matches) :
               /\ DOMAIN ret.entries = 0..W
               /\ \A w \in 0..W :
                      /\ ret.entries[w].potential_points = call.current_points + 2 * w
                      /\ ret.entries[w].qualification_probability[2] = call.iterations
               /\ \A w \in 0..(W - 1) :
                      ~MeetsThreshold(ret.entries[w].qualification_probability)
               /\ IF MeetsThreshold(ret.entries[W].qualification_probability)
                  THEN ret.mins = <<W, ret.entries[W].potential_points>>
                  ELSE W = Len(remaining_matches) /\ ret.mins = <<>>

\* The path stopped at win count 1 of a team with 2 remaining fixtures.
C8_Witness ==
    /\ PathReturned
    /\ Len(remaining_matches) = 2
    /\ ret.mins # <<>>
    /\ ret.mins[1] = 1
    /\ DOMAIN ret.entries = {0, 1}

\* The entry calculate_path_to_playoffs returns for an unknown team.
DegenerateEntry == 0 :> [potential_points |-> 0, qualification_probability |-> <<0, 1>>]

\* C9: a path asked for a team the standings do not hold has returned (not
\* raised) the single entry of win count 0 with probability 0, without a trial;
\* a scenario asked for such a team has returned the not-found sentinel; and the
\* simulator's standings, schedule and ratings are what they were.
C9_AbsentTeamGivesSentinel ==
    /\ (call.op = "calculate_path_to_playoffs" /\ FindTeam(standings, call.team_id) = <<>>) =>
           /\ pc = "returned"
           /\ ret.kind = "returned"
           /\ ret.entries = DegenerateEntry
           /\ ret.mins = <<>>
           /\ standings = InitialStandings
           /\ schedule = SubSeq(FixtureList, 1, Len(schedule))
           /\ ratings = initialize_elo_ratings(InitialStandings)
    /\ (report.op = "generate_qualification_scenarios"
            /\ FindTeam(standings, report.arg) = <<>>) =>
           /\ report.out = Returned(<<>>)
           /\ standings = InitialStandings
           /\ schedule = SubSeq(FixtureList, 1, Len(schedule))
           /\ ratings = initialize_elo_ratings(InitialStandings)

C9_Witness ==
    /\ PathReturned
    /\ call.team_id = AbsentTeam
    /\ Len(standings) = 5
    /\ Len(schedule) = 2
    /\ ret.entries = DegenerateEntry
    /\ report.op = "none"

\* C10 (as claimed, for a league of 1 to 3 teams): with fewer than 4 teams in
\* the standings both cutoff queries return the undefined result, not a points
\* value.
C10_CutoffUndefinedBelowFourTeams ==
    (report.op \in {"find_current_playoff_cutoff", "calculate_expected_cutoff"}
        /\ Len(standings) \in 1..3) =>
        report.out = Returned(<<>>)

\* C11 (as claimed): with an empty standings list run_simulation,
\* calculate_expected_cutoff and generate_playoff_report all complete without
\* raising, and what they yield holds no team: empty probability mappings, an
\* empty list of qualification probabilities and no scenario.
C11_EmptyStandingsCompletes ==
    Len(standings) = 0 =>
        /\ (call.op = "run_simulation" /\ pc \in {"returned", "raised"}) =>
               /\ pc = "returned"
               /\ DOMAIN ret.qualification_probability = {}
               /\ DOMAIN ret.position_probability = {}
        /\ report.op \in {"calculate_expected_cutoff", "generate_playoff_report"} =>
               report.out.kind = "returned"
        /\ (report.op = "generate_playoff_report" /\ report.out.kind = "returned") =>
               /\ report.out.value[1].qualification_probabilities = <<>>
               /\ DOMAIN report.out.value[1].team_scenarios = {}

\* The points of the row at rank 3 of the current standings, 0 when the league
\* has fewer than 4 rows: the current cutoff calculate_expected_cutoff starts
\* from, stated with the rank instead of the sort.
CurrentCutoff ==
    IF \E x \in DOMAIN standings : RankOf(standings, x) = 4
    THEN standings[CHOOSE x \in DOMAIN standings : RankOf(standings, x) = 4].points
    ELSE 0

\* The number of trials of the returned result that put some team at rank 3.
FourthPlaceMass ==
    SumSeq([x \in DOMAIN standings |->
               ret.position_probability[standings[x].team][4][1]])

\* C12 (as claimed): calculate_expected_cutoff never returns less than the
\* current cutoff + 2, and whenever no trial put a team at rank 3 (the total
\* 4th-place mass is 0) it returns max(14, current cutoff + 4).
C12_ExpectedCutoffFloorAndFallback ==
    report.op = "calculate_expected_cutoff" =>
        /\ report.out.kind = "returned" => report.out.value[1] >= CurrentCutoff + 2
        /\ FourthPlaceMass = 0 =>
               report.out = Returned(<<Max(14, CurrentCutoff + 4)>>)

\* The ratings the calculator computed when it was constructed.
InitialRatings == initialize_elo_ratings(InitialStandings)

\* In the step that simulates a fixture, who won, read off the trial's table:
\* every row of the one side has a win more, every row of the other a loss more.
WonBy(match, winner_id) ==
    LET loser_id == OtherSide(match, winner_id) IN
    \A x \in DOMAIN sim.val :
        /\ sim.val[x].team = winner_id => sim'.val[x].wins = sim.val[x].wins + 1
        /\ sim.val[x].team = loser_id => sim'.val[x].losses = sim.val[x].losses + 1

\* The draw of random.random() that decides the fixture simulated in this step
\* of a recorded or replayed run: the first draw the step consumes.
DecidingDraw == IF mode = "replay" THEN rest[1] ELSE tape'[Len(tape) + 1]

\* C13: no step of run_simulation or calculate_path_to_playoffs changes the
\* rating mapping; a fixture simulated with use_elo=False goes to the home team
\* iff the draw is below 0.5, whatever the ratings, and one simulated with the
\* rating model iff the draw is below the win probability of the ratings the
\* calculator was constructed with, in every trial.
RatingsFrozenStep ==
    /\ ratings' = ratings
    /\ ratings = InitialRatings
    /\ (pc = "run_trial" /\ m <= Len(schedule) /\ mode # "live") =>
           LET match == schedule[m]
               home_win_prob ==
                   IF call.use_elo
                   THEN calculate_win_probability(InitialRatings, match.homeTeam,
                                                  match.awayTeam)
                   ELSE 500
           IN  IF DecidingDraw < home_win_prob
               THEN WonBy(match, match.homeTeam)
               ELSE WonBy(match, match.awayTeam)

C13_RatingsFrozenDuringRun == [][RatingsFrozenStep]_vars

\* A recorded trial without the rating model in which the away side won the
\* second fixture on a draw of 0.7, which the ratings would have given to the
\* home side.
C13_Witness ==
    /\ pc = "run_trial"
    /\ ~call.use_elo
    /\ mode = "record"
    /\ Len(standings) = 5
    /\ m = 3
    /\ tape[4] = 700
    /\ 700 < calculate_win_probability(ratings, schedule[2].homeTeam, schedule[2].awayTeam)
    /\ FindTeam(sim.val, schedule[2].homeTeam)[1].losses
           = FindTeam(standings, schedule[2].homeTeam)[1].losses + 1

\* How often the fixture f occurs in the list sched.
Occurrences(sched, f) == Cardinality({x \in DOMAIN sched : sched[x] = f})

\* C14: in a fixed-wins trial for a team with r remaining fixtures and forced
\* win count w, the shared schedule is the list the simulator was built with,
\* the team's fixture list is its fixtures in schedule order and the shuffled
\* copy holds the same fixtures; after the first k - 1 forced fixtures the
\* team's row has min(k - 1, w) more wins, the rest of them as losses and 2
\* points per forced win, and every other row has played once per applied
\* fixture that involves it; so that at the end of the trial the team has
\* exactly w more wins, r - w more losses and its potential points, and every
\* row has played each of its fixtures of the schedule exactly once.
C14_FixedWinsTrialAppliesEachFixtureOnce ==
    pc \in {"fw_shuffle", "fw_trial"} =>
        LET team_id == call.team_id
            r == Len(remaining_matches)
            other_matches == OtherMatches(schedule, remaining_matches)
            forced == SubSeq(remaining_matches_copy, 1, k - 1)
            simulated == SubSeq(other_matches, 1, m - 1)
        IN  /\ schedule = SubSeq(FixtureList, 1, Len(schedule))
            /\ remaining_matches = SelectInvolving(schedule, team_id)
            /\ wins \in 0..r
            /\ pc = "fw_trial" =>
                   /\ Len(remaining_matches_copy) = r
                   /\ \A f \in Range(schedule) :
                          Occurrences(remaining_matches_copy, f)
                              = Occurrences(remaining_matches, f)
                   /\ k \in 1..(r + 1)
                   /\ m \in 1..(Len(other_matches) + 1)
                   /\ m > 1 => k = r + 1
            /\ Len(sim.val) = Len(InitialStandings)
            /\ \A x \in DOMAIN sim.val :
                   LET row == sim.val[x]
                       old == InitialStandings[x]
                       n == CountInvolving(forced, old.team)
                                + CountInvolving(simulated, old.team)
                   IN  /\ row.team = old.team
                       /\ row.played = old.played + n
                       /\ row.wins + row.losses = old.wins + old.losses + n
                       /\ row.wins >= old.wins /\ row.losses >= old.losses
                       /\ row.points = old.points + 2 * (row.wins - old.wins)
                       /\ old.team = team_id =>
                              /\ row.wins = old.wins + Min(k - 1, wins)
                              /\ row.losses = old.losses + Max(0, k - 1 - wins)
                              /\ row.points = call.current_points + 2 * Min(k - 1, wins)
                       /\ FixedTrialEnd =>
                              /\ row.played = old.played + CountInvolving(schedule, old.team)
                              /\ old.team = team_id =>
                                     /\ row.wins = old.wins + wins
                                     /\ row.losses = old.losses + (r - wins)
                                     /\ row.points = call.current_points + 2 * wins

\* The second trial of win count 1 for a team with 2 remaining fixtures has
\* ended, the fixtures having been shuffled into the other order.
C14_Witness ==
    /\ FixedTrialEnd
    /\ call.team_id = "SRH"
    /\ Len(remaining_matches) = 2
    /\ wins = 1
    /\ i = 1
    /\ remaining_matches_copy # remaining_matches
    /\ FindTeam(sim.val, "SRH")[1].wins = 2
    /\ FindTeam(sim.val, "SRH")[1].losses = 3

\* The qualification counts summed over the teams of the league.
TotalQualified(qcount) ==
    SumSeq([x \in DOMAIN standings |-> qcount[standings[x].team]])

\* A team's position counts at indices 0..3 summed.
TopFourCount(pcounts, t) ==
    SumSeq([p \in 1..4 |-> pcounts[t][p]])

\* C15: while run_simulation runs over a league of n teams, after i trials the
\* qualification counts summed over the teams are i * min(4, n), and each
\* team's qualification count is the sum of its position counts at indices
\* 0..3; the result returned divides both by the trial count, so that each
\* qualification probability is the sum of the team's first four position
\* probabilities and they sum to min(4, n).
C15_QualificationCountsMatchPositions ==
    call.op = "run_simulation" =>
        LET n == Len(standings) IN
        /\ DOMAIN qualification_count = Range(teams)
        /\ \A t \in Range(teams) :
               qualification_count[t] = TopFourCount(position_counts, t)
        /\ pc \in {"run_trial", "returned"} =>
               /\ i \in 0..call.iterations
               /\ TotalQualified(qualification_count) = i * Min(4, n)
        /\ pc = "returned" =>
               /\ i = call.iterations
               /\ DOMAIN ret.qualification_probability = Range(teams)
               /\ \A t \in Range(teams) :
                      /\ ret.qualification_probability[t]
                             = <<qualification_count[t], call.iterations>>
                      /\ \A p \in 1..4 :
                             ret.position_probability[t][p]
                                 = <<position_counts[t][p], call.iterations>>

\* Two trials over a league of 5 teams have been returned, and a team reached
\* the top 4 in one of them only.
C15_Witness ==
    /\ RunReturned
    /\ mode # "replay"
    /\ Len(standings) = 5
    /\ Len(schedule) = 2
    /\ call.iterations = 2
    /\ TotalQualified(qualification_count) = 8
    /\ \E t \in Range(teams) :
           /\ qualification_count[t] = 1
           /\ ret.qualification_probability[t] = <<1, 2>>

=============================================================================
